---- MODULE Spec2Model ----
(***************************************************************************)
(* Flight-Agent-App: the chat UI (app.py), the query orchestration agent   *)
(* (flight_agent.py) and the Directory & Reservations proxy (main.py).     *)
(*                                                                         *)
(* Text is a sequence of one-character strings, so that lower(), strip(),  *)
(* str() and the substring test are computed and not assumed.              *)
(* A JSON / Python value is a tagged record:                               *)
(*   [t |-> "none"]   [t |-> "int", n |-> 7]   [t |-> "str", s |-> <<..>>] *)
(* A dict is a function from its (present) keys to values.                 *)
(***************************************************************************)
EXTENDS Integers, Sequences, FiniteSets, TLC

\* ------------------------------------------------------------------ bounds
\* longest identifier / username typed by the caller
MaxLen == 2
\* longest user list the upstream directory answers with
MaxUsers == 2
\* tool-call rounds the model may ask for in one query
MaxRounds == 2

\* ------------------------------------------------------------------ values
None == [t |-> "none"]
IntV(n) == [t |-> "int", n |-> n]
StrV(s) == [t |-> "str", s |-> s]

Chars == {"1", "a", "A", " "}

\* the sequences over S of length at most n
ListsUpTo(S, n) == UNION {[1..k -> S] : k \in 0..n}

StrsUpTo(n) == ListsUpTo(Chars, n)

\* ------------------------------------------------------------ Python text
DigitChar(d) ==
    CASE d = 0 -> "0" [] d = 1 -> "1" [] d = 2 -> "2" [] d = 3 -> "3" [] d = 4 -> "4"
      [] d = 5 -> "5" [] d = 6 -> "6" [] d = 7 -> "7" [] d = 8 -> "8" [] d = 9 -> "9"

\* str(n) of a non-negative int
RECURSIVE Digits(_)
Digits(n) == IF n < 10 THEN <<DigitChar(n)>> ELSE Append(Digits(n \div 10), DigitChar(n % 10))

\* str(v), also what an f-string writes for v
PyStr(v) ==
    CASE v.t = "none" -> <<"N", "o", "n", "e">>
      [] v.t = "int"  -> Digits(v.n)
      [] v.t = "str"  -> v.s

LowerChar(c) ==
    CASE c = "A" -> "a" [] c = "B" -> "b" [] c = "N" -> "n" [] OTHER -> c

\* str.lower()
Lower(s) == [i \in 1..Len(s) |-> LowerChar(s[i])]

RECURSIVE LStrip(_)
LStrip(s) == IF s # << >> /\ Head(s) = " " THEN LStrip(Tail(s)) ELSE s

RECURSIVE RStrip(_)
RStrip(s) == IF s # << >> /\ s[Len(s)] = " " THEN RStrip(SubSeq(s, 1, Len(s) - 1)) ELSE s

\* str.strip()
Strip(s) == RStrip(LStrip(s))

\* sub in s
Contains(sub, s) ==
    \E i \in 1..(Len(s) - Len(sub) + 1) : SubSeq(s, i, i + Len(sub) - 1) = sub

IsDigit(c) == c \in {"0", "1", "2", "3", "4", "5", "6", "7", "8", "9"}

\* re.fullmatch(r'\d+', s)
FullMatchDigits(s) == Len(s) >= 1 /\ \A i \in 1..Len(s) : IsDigit(s[i])

\* dict.get(key) and dict.get(key, default)
Get(d, key) == IF key \in DOMAIN d THEN d[key] ELSE None
GetOr(d, key, default) == IF key \in DOMAIN d THEN d[key] ELSE default

\* a Python value used as a condition
Truthy(v) ==
    CASE v.t = "none" -> FALSE
      [] v.t = "int"  -> v.n # 0
      [] v.t = "str"  -> v.s # << >>

\* ------------------------------------------------- main.py: extract_user_id
candidate_keys == <<"CustomerID", "customer_id", "customerId", "id">>

\* the number zero is taken for an id
NotSentinelZeroOk(value) == value # None /\ value # StrV(<< >>)

\* value not in (None, "", 0)
NotSentinel(value) == value # None /\ value # StrV(<< >>) /\ value # IntV(0)

RECURSIVE ExtractFrom(_, _)
ExtractFrom(user, i) ==
    IF i > Len(candidate_keys) THEN None
    ELSE LET value == Get(user, candidate_keys[i])
         IN  IF NotSentinel(value) THEN StrV(PyStr(value)) ELSE ExtractFrom(user, i + 1)

extract_user_id(user) == ExtractFrom(user, 1)

\* --------------------------------------------------- main.py: build_user_name
OrEmpty(v) == IF Truthy(v) THEN v.s ELSE << >>

build_user_name(user) ==
    LET first == Strip(OrEmpty(Get(user, "first_name")))
        last  == Strip(OrEmpty(Get(user, "last_name")))
        full  == Strip(first \o <<" ">> \o last)
    IN  IF full # << >> THEN full ELSE IF first # << >> THEN first ELSE last

\* ------------------------------- flight_agent.py: resolve_user_name_to_id
\* What the GET on the user directory can come back with: a transport
\* failure, a non-success status (raise_for_status), a body response.json()
\* cannot parse (all three are requests.exceptions.RequestException), or a
\* parsed body:
\*   "list"       a bare, non-empty list      "empty_list"  []
\*   "data"       {"data": [users...]}        "data_other"  {"data": <not a list>}
\*   "obj_nodata" a non-empty object without "data"
\*   "empty_obj"  {}      "scalar" a number or string      "null" null
DirFailure(kind) == [kind |-> kind]
DirBody(b, items) == [kind |-> "json", b |-> b, items |-> items]

ResId(id, net) == [r |-> "id", id |-> id, net |-> net]
ResError(msg, arg, net) == [r |-> "error", error |-> msg, arg |-> arg, net |-> net]
ResRaise(exc, net) == [r |-> "raise", exc |-> exc, net |-> net]

\* f"{user_data.get('first_name', '')} {user_data.get('last_name', '')}".lower()
full_name(user_data) ==
    Lower(PyStr(GetOr(user_data, "first_name", StrV(<< >>))) \o <<" ">>
          \o PyStr(GetOr(user_data, "last_name", StrV(<< >>))))

\* return str(user_data["CustomerID"])
MatchedId(user_data) ==
    IF "CustomerID" \in DOMAIN user_data
    THEN ResId(PyStr(user_data["CustomerID"]), 1)
    ELSE ResRaise("KeyError", 1)

\* the for loop over search_results["data"], from element i on
RECURSIVE ScanUsers(_, _, _, _)
ScanUsers(data, i, normalized_input, name_or_id) ==
    IF i > Len(data)
    THEN ResError("UserID not found via API search for name", name_or_id, 1)
    ELSE IF Contains(normalized_input, full_name(data[i]))
         THEN MatchedId(data[i])
         ELSE ScanUsers(data, i + 1, normalized_input, name_or_id)

\* search_results and isinstance(search_results.get("data"), list) ...
ParseSearchResults(body, name_or_id) ==
    CASE body.b \in {"empty_list", "empty_obj", "null"} ->
            ResError("API response structure is invalid or empty.", << >>, 1)
      [] body.b \in {"list", "scalar"} -> ResRaise("AttributeError", 1)
      [] body.b \in {"data_other", "obj_nodata"} ->
            ResError("API response structure is invalid or empty.", << >>, 1)
      [] body.b = "data" ->
            ScanUsers(body.items, 1, Strip(Lower(name_or_id)), name_or_id)

\* the configuration test moved in front of the digit test
ResolveConfigFirst(name_or_id, api_key, dir) ==
    IF name_or_id.t # "str" THEN ResRaise("TypeError", 0)
    ELSE IF ~api_key THEN ResError("Configuration Missing", << >>, 0)
    ELSE IF FullMatchDigits(name_or_id.s) THEN ResId(name_or_id.s, 0)
    ELSE IF dir.kind # "json"
         THEN ResError("Flight Circle User Lookup API failed", << >>, 1)
         ELSE ParseSearchResults(dir, name_or_id.s)

\* net counts the requests sent to the user directory
resolve_user_name_to_id(name_or_id, api_key, dir) ==
    IF name_or_id.t # "str" THEN ResRaise("TypeError", 0)
    ELSE IF FullMatchDigits(name_or_id.s) THEN ResId(name_or_id.s, 0)
    ELSE IF ~api_key THEN ResError("Configuration Missing", << >>, 0)
    ELSE IF dir.kind # "json"
         THEN ResError("Flight Circle User Lookup API failed", << >>, 1)
         ELSE ParseSearchResults(dir, name_or_id.s)

\* ------------------------------------ flight_agent.py: fetch_student_flights
\* What the POST to /student_flights can come back with.
FlightOutcomes ==
    {[kind |-> "transport_fail"], [kind |-> "http_error"], [kind |-> "unparseable"],
     [kind |-> "json", body |-> [flights |-> "F"]]}

RequiredArgs == {"user_identifier", "start_date", "end_date"}

\* The events of one execution, in order, and what it returns or raises.
ToolValue(value, events) == [kind |-> "value", value |-> value, events |-> events]
ToolRaise(exc, events) == [kind |-> "raise", exc |-> exc, events |-> events]

EvResolve(arg) == [e |-> "resolve", arg |-> arg]
EvDirGet == [e |-> "GET users"]
EvFlightPost(user_id) == [e |-> "POST student_flights", user_id |-> user_id]

\* a failed request to the flight service is sent a second time
FetchWithRetry(func_args, key, dir, flight) ==
    IF DOMAIN func_args # RequiredArgs THEN ToolRaise("TypeError", << >>)
    ELSE
    LET user_id_result == resolve_user_name_to_id(func_args["user_identifier"], key, dir)
        looked == <<EvResolve(func_args["user_identifier"])>>
                  \o (IF user_id_result.net = 1 THEN <<EvDirGet>> ELSE << >>)
    IN  CASE user_id_result.r = "raise" -> ToolRaise(user_id_result.exc, looked)
          [] user_id_result.r = "error" ->
                ToolValue([error |-> user_id_result.error, arg |-> user_id_result.arg], looked)
          [] user_id_result.r = "id" ->
                LET sent == Append(looked, EvFlightPost(user_id_result.id))
                IN  IF flight.kind = "json"
                    THEN ToolValue(flight.body, sent)
                    ELSE ToolValue([error |-> "API Request to Flight Service Failed",
                                    arg |-> << >>],
                                   Append(sent, EvFlightPost(user_id_result.id)))

\* fetch_student_flights(**func_args): the call binds the three parameters
\* or raises TypeError before the body runs
fetch_student_flights(func_args, key, dir, flight) ==
    IF DOMAIN func_args # RequiredArgs THEN ToolRaise("TypeError", << >>)
    ELSE
    LET user_id_result == resolve_user_name_to_id(func_args["user_identifier"], key, dir)
        looked == <<EvResolve(func_args["user_identifier"])>>
                  \o (IF user_id_result.net = 1 THEN <<EvDirGet>> ELSE << >>)
    IN  CASE user_id_result.r = "raise" -> ToolRaise(user_id_result.exc, looked)
          [] user_id_result.r = "error" ->
                ToolValue([error |-> user_id_result.error, arg |-> user_id_result.arg], looked)
          [] user_id_result.r = "id" ->
                LET sent == Append(looked, EvFlightPost(user_id_result.id))
                IN  IF flight.kind = "json"
                    THEN ToolValue(flight.body, sent)
                    ELSE ToolValue([error |-> "API Request to Flight Service Failed",
                                    arg |-> << >>], sent)

\* ----------------------------------------------------------------- state
VARIABLES
    client_ok,    \* flight_agent.py: 'client' in globals()
    api_key,      \* flight_agent.py: FLIGHT_CIRCLE_API_KEY is set
    pc,           \* where the submit handler is: "idle", "generate", "decide"
    user_prompt,  \* app.py: the text input's content at the submission
    messages,     \* run_agent_query: the conversation
    response,     \* run_agent_query: the model's latest response
    events,       \* what the current submission did, in order
    shown,        \* app.py: what the submission rendered, in order
    call,         \* the request the proxy serves / the resolver's input
    ret           \* its answer, Pending before

vars == <<client_ok, api_key, pc, user_prompt, messages, response, events, shown, call, ret>>
agentVars == <<client_ok, api_key, pc, user_prompt, messages, response, events, shown>>

NoCall == [fn |-> "none"]
NoResponse == [text |-> "", function_calls |-> << >>]

\* ------------------------------------------------ what the model can answer
Dates == [start_date |-> "2024-01-01", end_date |-> "2024-12-31"]

FullArgs(id) == [user_identifier |-> id] @@ Dates

AgentIdentifiers == {StrV(<<"1">>), StrV(<<"a">>), IntV(1)}

\* function_call.args is taken to be a dict, possibly empty or ill-fitting
ToolCalls ==
    {[name |-> "fetch_student_flights", args |-> FullArgs(id)] : id \in AgentIdentifiers}
    \cup {[name |-> "fetch_student_flights", args |-> [user_identifier |-> StrV(<<"1">>)]],
          [name |-> "fetch_student_flights",
           args |-> FullArgs(StrV(<<"1">>)) @@ [fbo_id |-> "2698"]],
          [name |-> "fetch_reservations", args |-> FullArgs(StrV(<<"1">>))],
          [name |-> "other_tool", args |-> << >>]}

\* one tool call, or two in the same response
CallLists ==
    {<<c>> : c \in ToolCalls}
    \cup {<<c, d>> : c \in {x \in ToolCalls : x.name # "fetch_reservations"},
                     d \in {[name |-> "fetch_student_flights",
                             args |-> FullArgs(StrV(<<"a">>))]}}

Replies ==
    {[text |-> "answer", function_calls |-> << >>]}
    \cup {[text |-> "", function_calls |-> fc] : fc \in CallLists}

\* what the user directory can answer while the agent runs
UserAviv == [first_name |-> StrV(<<"A">>), last_name |-> StrV(<<"a">>),
             CustomerID |-> IntV(12)]
UserNoCid == [first_name |-> StrV(<<"A">>), last_name |-> StrV(<<"a">>), id |-> IntV(5)]

AgentDirs ==
    {DirFailure("transport_fail"), DirFailure("http_error"), DirFailure("unparseable"),
     DirBody("list", <<UserAviv>>), DirBody("empty_obj", << >>), DirBody("data", << >>),
     DirBody("data", <<UserAviv>>), DirBody("data", <<UserNoCid>>)}

Prompts == {"", "flights of 8280 in 2024?"}

\* ------------------------------------------------------ app.py: rendering
\* st.success, st.markdown("---"), st.subheader, st.markdown(final_answer)
UiSuccess(final_answer) ==
    <<[w |-> "success"], [w |-> "markdown", body |-> "---"], [w |-> "subheader"],
      [w |-> "markdown", body |-> final_answer]>>

\* the configuration hint is left out
UiFailureNoHint(e) == <<[w |-> "error", body |-> e]>>

\* st.error(f"...{e}"), st.warning(<the configuration hint>)
UiFailure(e) == <<[w |-> "error", body |-> e], [w |-> "warning", body |-> "check .env"]>>

\* ------------------------------------- flight_agent.py: run_agent_query
CLIENT_ERROR == "Gemini Client not initialized"
MODEL == "gemini-2.5-flash"

EvInvoke(p) == [e |-> "run_agent_query", prompt |-> p]
EvPrintQuery(p) == [e |-> "print user query", prompt |-> p]
EvPrintTool(name, args) == [e |-> "print tool call", name |-> name, args |-> args]
EvPrintFinal(text) == [e |-> "print final answer", text |-> text]
EvResponse(r) == [e |-> "response", calls |-> Len(r.function_calls)]
EvReturn(text) == [e |-> "return", text |-> text]
EvRaise(exc, from) == [e |-> "raise", exc |-> exc, from |-> from]

\* client.models.generate_content(model=..., contents=messages, config=tools)
InitialGenerate(contents) ==
    [e |-> "generate", model |-> MODEL, contents |-> contents,
     tools |-> {"fetch_student_flights"}]

\* client.models.generate_content(model=..., contents=messages)
FollowUpGenerate(contents) ==
    [e |-> "generate", model |-> MODEL, contents |-> contents, tools |-> {}]

UserTurn(text) == [role |-> "user", text |-> text]
ModelTurn(r) == [role |-> "model", content |-> r]
ToolTurn(name, output) == [role |-> "tool", name |-> name, response |-> output]

\* the requested name is left out of the message
UnknownFunctionNoName(func_name) == [error |-> "Unknown function"]

UnknownFunction(func_name) == [error |-> "Unknown function: " \o func_name]

\* if func_name == "fetch_student_flights": ... else: ...
Dispatch(func_name, func_args, key, dir, flight) ==
    IF func_name = "fetch_student_flights"
    THEN fetch_student_flights(func_args, key, dir, flight)
    ELSE ToolValue(UnknownFunction(func_name), << >>)

Count(kind) == Cardinality({i \in 1..Len(events) : events[i].e = kind})
ToolRounds == Cardinality({i \in 1..Len(events) :
                              events[i].e = "response" /\ events[i].calls > 0})

\* app.py: the button is pressed with `text` in the input box.  An empty
\* input is a no-op; otherwise run_agent_query starts: without a client it
\* returns the fixed message at once, with one it prints the prompt, builds
\* the conversation and sends the first generate_content request.
Submit(text) ==
    /\ pc = "idle"
    /\ user_prompt' = text
    /\ response' = NoResponse
    /\ IF text = ""
       THEN /\ events' = << >>
            /\ messages' = << >>
            /\ shown' = << >>
            /\ pc' = "idle"
       ELSE IF ~client_ok
       THEN /\ events' = <<EvInvoke(text), EvReturn(CLIENT_ERROR)>>
            /\ messages' = << >>
            /\ shown' = UiSuccess(CLIENT_ERROR)
            /\ pc' = "idle"
       ELSE /\ messages' = <<UserTurn(text)>>
            /\ events' = <<EvInvoke(text), EvPrintQuery(text),
                           InitialGenerate(<<UserTurn(text)>>)>>
            /\ shown' = << >>
            /\ pc' = "generate"
    /\ UNCHANGED <<client_ok, api_key, call, ret>>

\* generate_content returns a response
ModelReply(r) ==
    /\ pc = "generate"
    /\ r.function_calls # << >> => ToolRounds < MaxRounds
    /\ response' = r
    /\ events' = Append(events, EvResponse(r))
    /\ pc' = "decide"
    /\ UNCHANGED <<client_ok, api_key, user_prompt, messages, shown, call, ret>>

\* generate_content raises: nothing in run_agent_query catches it, the
\* except clause of app.py does
ModelFails ==
    /\ pc = "generate"
    /\ events' = Append(events, EvRaise("APIError", "model"))
    /\ shown' = UiFailure("APIError")
    /\ pc' = "idle"
    /\ UNCHANGED <<client_ok, api_key, user_prompt, messages, response, call, ret>>

\* one pass of the while loop: the first function call is printed and run,
\* the model's turn and the tool turn are appended, generate_content is
\* called again.  An exception of the tool leaves run_agent_query.
Execute(dir, flight) ==
    /\ pc = "decide"
    /\ response.function_calls # << >>
    /\ LET function_call == response.function_calls[1]
           func_name == function_call.name
           func_args == function_call.args
           tool_output == Dispatch(func_name, func_args, api_key, dir, flight)
           ran == Append(events, EvPrintTool(func_name, func_args)) \o tool_output.events
       IN  IF tool_output.kind = "raise"
           THEN /\ events' = Append(ran, EvRaise(tool_output.exc, "tool"))
                /\ shown' = UiFailure(tool_output.exc)
                /\ pc' = "idle"
                /\ UNCHANGED messages
           ELSE LET extended == messages \o <<ModelTurn(response),
                                              ToolTurn(func_name, tool_output.value)>>
                IN  /\ messages' = extended
                    /\ events' = Append(ran, FollowUpGenerate(extended))
                    /\ pc' = "generate"
                    /\ UNCHANGED shown
    /\ UNCHANGED <<client_ok, api_key, user_prompt, response, call, ret>>

\* no function call in the response: print and return its text; app.py
\* renders it
Done ==
    /\ pc = "decide"
    /\ response.function_calls = << >>
    /\ events' = events \o <<EvPrintFinal(response.text), EvReturn(response.text)>>
    /\ shown' = UiSuccess(response.text)
    /\ pc' = "idle"
    /\ UNCHANGED <<client_ok, api_key, user_prompt, messages, response, call, ret>>

Init ==
    /\ client_ok \in BOOLEAN
    /\ api_key \in BOOLEAN
    /\ pc = "idle"
    /\ user_prompt = ""
    /\ messages = << >>
    /\ response = NoResponse
    /\ events = << >>
    /\ shown = << >>
    /\ call = NoCall
    /\ ret = NoCall

Next ==
    \/ \E text \in Prompts : Submit(text)
    \/ \E r \in Replies : ModelReply(r)
    \/ ModelFails
    \/ \E dir \in AgentDirs, flight \in FlightOutcomes : Execute(dir, flight)
    \/ Done

Spec == Init /\ [][Next]_vars

\* -------------------------------------------- the resolver, applied alone
Identifiers == {StrV(x) : x \in StrsUpTo(MaxLen)} \cup {IntV(1)}

NameFields ==
    {[first_name |-> StrV(<<"A">>), last_name |-> StrV(<<"a">>)],
     [last_name |-> StrV(<<"1", "a">>)]}

IdFields ==
    {<< >>,
     [CustomerID |-> IntV(12)],
     [CustomerID |-> IntV(0), id |-> IntV(5)],
     [id |-> IntV(5)]}

DirectoryUsers == {n @@ i : n \in NameFields, i \in IdFields}

Directories ==
    {DirFailure("transport_fail"), DirFailure("http_error"), DirFailure("unparseable")}
    \cup {DirBody(b, << >>) : b \in {"empty_list", "data_other", "obj_nodata",
                                     "empty_obj", "scalar", "null"}}
    \cup {DirBody("list", <<u>>) : u \in DirectoryUsers}
    \cup {DirBody("data", l) : l \in ListsUpTo(DirectoryUsers, MaxUsers)}

Pending == [fn |-> "pending"]

\* resolve_user_name_to_id is applied to the drawn input
ResolveCall ==
    /\ call.fn = "resolve_user_name_to_id"
    /\ ret = Pending
    /\ ret' = resolve_user_name_to_id(call.name_or_id, api_key, call.dir)
    /\ UNCHANGED <<agentVars, call>>

InitResolve ==
    /\ client_ok = TRUE
    /\ api_key \in BOOLEAN
    /\ pc = "idle"
    /\ user_prompt = ""
    /\ messages = << >>
    /\ response = NoResponse
    /\ events = << >>
    /\ shown = << >>
    /\ \E d \in Directories, n \in Identifiers :
          call = [fn |-> "resolve_user_name_to_id", name_or_id |-> n, dir |-> d]
    /\ ret = Pending

NextResolve == ResolveCall

SpecResolve == InitResolve /\ [][NextResolve]_vars

\* ---------------------------------------------------- main.py: the proxy
\* What the GET on Flight Circle can come back with: a transport failure
\* (httpx.RequestError) or a response with a status and a body.  Bodies:
\*   "list" a bare list   "data" {"data": [...]}   "data_other" {"data": <not a list>}
\*   "obj_nodata" an object without "data"   "scalar"   "unparseable" not JSON
Transport == [kind |-> "transport_fail"]
Upstream(status, b, items) ==
    [kind |-> "response", status |-> status, body |-> [b |-> b, items |-> items]]

HttpError(status, detail) == [status |-> status, detail |-> detail]
HttpOk(payload) == [status |-> 200, payload |-> payload]
\* an exception no handler catches: FastAPI answers 500 Internal Server Error
Unhandled(exc) == [status |-> 500, detail |-> "Internal Server Error", exc |-> exc]

Fetched(data) == [ok |-> TRUE, data |-> data]
Failed(http) == [ok |-> FALSE, http |-> http]

\* raw = resp.json(); take raw["data"] of an object that has it; require a list
ParseListBody(body, what) ==
    IF body.b = "unparseable" THEN Failed(Unhandled("JSONDecodeError"))
    ELSE IF body.b \in {"list", "data"} THEN Fetched(body.items)
    ELSE Failed(HttpError(500, [error |-> "invalid_response_format", message |-> what]))

\* the upstream call of fetch_flightcircle_users
fetch_flightcircle_users(upstream) ==
    IF upstream.kind = "transport_fail"
    THEN Failed(HttpError(502, [error |-> "upstream_request_failed"]))
    ELSE IF upstream.status # 200
    THEN Failed(HttpError(upstream.status, upstream.body))
    ELSE ParseListBody(upstream.body, "users")

\* the same steps, written out again in get_reservations_by_user
reservations_upstream(upstream) ==
    IF upstream.kind = "transport_fail"
    THEN Failed(HttpError(502, [error |-> "upstream_request_failed"]))
    ELSE IF upstream.status # 200
    THEN Failed(HttpError(upstream.status, upstream.body))
    ELSE ParseListBody(upstream.body, "reservations")

\* and in get_flights_by_date
flights_upstream(upstream) ==
    IF upstream.kind = "transport_fail"
    THEN Failed(HttpError(502, [error |-> "upstream_request_failed"]))
    ELSE IF upstream.status # 200
    THEN Failed(HttpError(upstream.status, upstream.body))
    ELSE ParseListBody(upstream.body, "flights")

\* GET /users/by-name
RECURSIVE FilterByName(_, _, _)
FilterByName(raw_users, i, normalized_query) ==
    IF i > Len(raw_users) THEN << >>
    ELSE LET u == raw_users[i]
             name == build_user_name(u)
             id == extract_user_id(u)
             rest == FilterByName(raw_users, i + 1, normalized_query)
         IN  IF Contains(normalized_query, Lower(name))
             THEN <<[id |-> IF id = None THEN << >> ELSE id.s, name |-> name,
                     email |-> Get(u, "email"), phone |-> Get(u, "phone")]>> \o rest
             ELSE rest

get_user_by_name(name, upstream) ==
    LET fetched == fetch_flightcircle_users(upstream)
    IN  IF ~fetched.ok THEN fetched.http
        ELSE HttpOk(FilterByName(fetched.data, 1, Lower(Strip(name))))

\* (u.get("email") or "").strip().lower()
NormEmail(u) == Lower(Strip(OrEmpty(Get(u, "email"))))

\* the users whose e-mail is the username, in upstream order
RECURSIVE MatchingUsers(_, _, _)
MatchingUsers(raw_users, i, normalized_username) ==
    IF i > Len(raw_users) THEN << >>
    ELSE IF normalized_username = NormEmail(raw_users[i])
         THEN <<raw_users[i]>> \o MatchingUsers(raw_users, i + 1, normalized_username)
         ELSE MatchingUsers(raw_users, i + 1, normalized_username)

\* the id is looked at before the number of matches
UsernameIdFirst(username, upstream) ==
    LET fetched == fetch_flightcircle_users(upstream)
        matching_users == IF fetched.ok
                          THEN MatchingUsers(fetched.data, 1, Lower(Strip(username)))
                          ELSE << >>
    IN  IF ~fetched.ok THEN fetched.http
        ELSE IF matching_users = << >>
        THEN HttpError(404, [error |-> "user_not_found"])
        ELSE IF extract_user_id(matching_users[1]) = None
        THEN HttpError(500, [error |-> "missing_user_id",
                             raw_user_keys |-> DOMAIN matching_users[1]])
        ELSE IF Len(matching_users) > 1
        THEN HttpError(409, [error |-> "multiple_users"])
        ELSE HttpOk([user_id |-> extract_user_id(matching_users[1]).s,
                     name |-> build_user_name(matching_users[1]),
                     email |-> Get(matching_users[1], "email")])

\* GET /users/by-username
get_user_id_by_username(username, upstream) ==
    LET fetched == fetch_flightcircle_users(upstream)
        matching_users == IF fetched.ok
                          THEN MatchingUsers(fetched.data, 1, Lower(Strip(username)))
                          ELSE << >>
    IN  IF ~fetched.ok THEN fetched.http
        ELSE IF matching_users = << >>
        THEN HttpError(404, [error |-> "user_not_found"])
        ELSE IF Len(matching_users) > 1
        THEN HttpError(409, [error |-> "multiple_users"])
        ELSE LET user == matching_users[1]
                 user_id == extract_user_id(user)
             IN  IF user_id = None
                 THEN HttpError(500, [error |-> "missing_user_id",
                                      raw_user_keys |-> DOMAIN user])
                 ELSE HttpOk([user_id |-> user_id.s, name |-> build_user_name(user),
                              email |-> Get(user, "email")])

\* Reservation(...) and Flight(...) need start and end to be strings
Validates(r) == Get(r, "start").t = "str" /\ Get(r, "end").t = "str"

ToReservation(r) ==
    [id |-> PyStr(Get(r, "id")), user_id |-> PyStr(Get(r, "user_id")),
     resource_name |-> Get(r, "resource_name"), start |-> r["start"].s,
     end |-> r["end"].s, status |-> Get(r, "status")]

\* GET /reservations/by-user
get_reservations_by_user(upstream) ==
    LET fetched == reservations_upstream(upstream)
    IN  IF ~fetched.ok THEN fetched.http
        ELSE IF \E i \in 1..Len(fetched.data) : ~Validates(fetched.data[i])
        THEN Unhandled("ValidationError")
        ELSE HttpOk([i \in 1..Len(fetched.data) |-> ToReservation(fetched.data[i])])

ToFlight(f) ==
    [id |-> PyStr(Get(f, "id")), resource_name |-> OrEmpty(Get(f, "resource_name")),
     start |-> f["start"].s, end |-> f["end"].s,
     instructor_name |-> Get(f, "instructor_name"), user_name |-> Get(f, "user_name")]

\* GET /flights/by-date
get_flights_by_date(upstream) ==
    LET fetched == flights_upstream(upstream)
    IN  IF ~fetched.ok THEN fetched.http
        ELSE IF \E i \in 1..Len(fetched.data) : ~Validates(fetched.data[i])
        THEN Unhandled("ValidationError")
        ELSE HttpOk([i \in 1..Len(fetched.data) |-> ToFlight(fetched.data[i])])

\* ------------------------------------------------ the proxy's inputs
Statuses == {200, 201, 204, 404, 500}
BodyShapes == {"list", "data", "data_other", "obj_nodata", "scalar", "unparseable"}

\* every status and shape with the lists `samples`, and every list of
\* `lists` under a 200 with a list-shaped body
Upstreams(lists, samples) ==
    {Transport}
    \cup {Upstream(st, b, l) : st \in Statuses, b \in BodyShapes, l \in samples}
    \cup {Upstream(200, b, l) : b \in {"list", "data"}, l \in lists}

Emails == {<< >>, [email |-> StrV(<<"a">>)], [email |-> StrV(<<"A", " ">>)], [email |-> None]}

AccountUsers ==
    {e @@ i : e \in Emails,
              i \in {<< >>, [CustomerID |-> IntV(12)], [CustomerID |-> IntV(0), id |-> IntV(5)]}}

IdValues == {None, StrV(<< >>), IntV(0), IntV(12), StrV(<<"7">>)}

\* every record over the four id fields: each absent or one of IdValues
IdRecords ==
    UNION {[keys -> IdValues] : keys \in SUBSET {"CustomerID", "customer_id", "customerId", "id"}}

Slot == [id |-> IntV(3), user_id |-> IntV(12), start |-> StrV(<<"1">>), end |-> StrV(<<"1">>)]
SlotNoStart == [id |-> IntV(3), user_id |-> IntV(12), end |-> StrV(<<"1">>)]
SlotLists == {<< >>, <<Slot>>, <<SlotNoStart>>, <<Slot, Slot>>}

ExtractCall ==
    /\ call.fn = "extract_user_id"
    /\ ret = Pending
    /\ ret' = extract_user_id(call.user)
    /\ UNCHANGED <<agentVars, call>>

ByName ==
    /\ call.fn = "/users/by-name"
    /\ ret = Pending
    /\ ret' = get_user_by_name(call.name, call.upstream)
    /\ UNCHANGED <<agentVars, call>>

ByUsername ==
    /\ call.fn = "/users/by-username"
    /\ ret = Pending
    /\ ret' = get_user_id_by_username(call.username, call.upstream)
    /\ UNCHANGED <<agentVars, call>>

ReservationsByUser ==
    /\ call.fn = "/reservations/by-user"
    /\ ret = Pending
    /\ ret' = get_reservations_by_user(call.upstream)
    /\ UNCHANGED <<agentVars, call>>

FlightsByDate ==
    /\ call.fn = "/flights/by-date"
    /\ ret = Pending
    /\ ret' = get_flights_by_date(call.upstream)
    /\ UNCHANGED <<agentVars, call>>

InitProxy ==
    /\ client_ok = TRUE
    /\ api_key = TRUE
    /\ pc = "idle"
    /\ user_prompt = ""
    /\ messages = << >>
    /\ response = NoResponse
    /\ events = << >>
    /\ shown = << >>
    /\ \/ \E u \in IdRecords : call = [fn |-> "extract_user_id", user |-> u]
       \/ \E up \in Upstreams(ListsUpTo(DirectoryUsers, MaxUsers), {<< >>}),
             n \in StrsUpTo(MaxLen) :
               call = [fn |-> "/users/by-name", name |-> n, upstream |-> up]
       \/ \E up \in Upstreams(ListsUpTo(AccountUsers, MaxUsers), {<< >>}),
             n \in StrsUpTo(MaxLen) :
               call = [fn |-> "/users/by-username", username |-> n, upstream |-> up]
       \/ \E up \in Upstreams(SlotLists, SlotLists),
             f \in {"/reservations/by-user", "/flights/by-date"} :
               call = [fn |-> f, upstream |-> up]
    /\ ret = Pending

NextProxy == ExtractCall \/ ByName \/ ByUsername \/ ReservationsByUser \/ FlightsByDate

SpecProxy == InitProxy /\ [][NextProxy]_vars

\* =================================================================== claims
Last(seq) == seq[Len(seq)]

ModelCalls == Count("generate")
Resolutions == Count("resolve")
DirRequests == Count("GET users")
Fetches == Count("POST student_flights")

\* run_agent_query, started with a client, has returned
Returned == events # << >> /\ Last(events).e = "return" /\ ModelCalls > 0
\* run_agent_query was left by an exception of the tool
ToolRaised == events # << >> /\ Last(events).e = "raise" /\ Last(events).from = "tool"

\* the returned run made one tool round, and its first invocation named `name`
OneRoundOf(name) ==
    /\ Returned
    /\ Len(messages) = 3
    /\ messages[2].content.function_calls[1].name = name

ResolveErrors ==
    {"Configuration Missing", "Flight Circle User Lookup API failed",
     "API response structure is invalid or empty.",
     "UserID not found via API search for name"}

ResolutionFailed(tool_result) ==
    "error" \in DOMAIN tool_result /\ tool_result.error \in ResolveErrors

\* C1 as stated: a returned run whose first response had no tool call made
\* one model call, no resolution and no flight request; a returned run whose
\* first response asked for fetch_student_flights and whose second asked for
\* nothing made exactly one resolution, one flight request and two model
\* calls; model calls = 1 + responses with a tool call.
C1_Original ==
    Returned =>
        /\ Len(messages) = 1 => ModelCalls = 1 /\ Resolutions = 0 /\ Fetches = 0
        /\ OneRoundOf("fetch_student_flights") =>
               Resolutions = 1 /\ Fetches = 1 /\ ModelCalls = 2
        /\ ModelCalls = 1 + ToolRounds

\* C1 amended: as C1, but the flight request is made exactly when the
\* resolution gave an identifier (none when it gave an error), and the count
\* of model calls is 1 + tool-call responses at the return, while a run left
\* by an exception of the tool made as many model calls as it got tool-call
\* responses.
C1_CallCounts ==
    /\ Returned =>
        /\ Len(messages) = 1 =>
               ModelCalls = 1 /\ Resolutions = 0 /\ DirRequests = 0 /\ Fetches = 0
        /\ OneRoundOf("fetch_student_flights") =>
               /\ Resolutions = 1
               /\ ModelCalls = 2
               /\ Fetches = IF ResolutionFailed(messages[3].response) THEN 0 ELSE 1
        /\ ModelCalls = 1 + ToolRounds
    /\ ToolRaised => ModelCalls = ToolRounds

C1_Witness ==
    /\ OneRoundOf("fetch_student_flights")
    /\ Resolutions = 1 /\ Fetches = 1 /\ ModelCalls = 2
    /\ ~ResolutionFailed(messages[3].response)

\* C2 as stated: no exception of the tool-execution path leaves
\* run_agent_query; every failure becomes an {"error": ...} tool turn.
C2_NoToolException == \A i \in 1..Len(events) : events[i].e = "raise" => events[i].from # "tool"

\* C3: when the first invocation of a response names a tool other than
\* fetch_student_flights, the Execute step resolves nothing and requests
\* nothing, appends the model turn and a tool turn whose result is exactly
\* {"error": "Unknown function: <name>"}, and calls the model again.
C3_UnknownTool ==
    [][(pc = "decide" /\ response.function_calls # << >>
        /\ response.function_calls[1].name # "fetch_student_flights")
       => LET name == response.function_calls[1].name
              turns == messages \o <<ModelTurn(response),
                                     ToolTurn(name, [error |-> "Unknown function: " \o name])>>
          IN  /\ pc' = "generate"
              /\ messages' = turns
              /\ Len(events') = Len(events) + 2
              /\ events'[Len(events) + 1].e = "print tool call"
              /\ events'[Len(events) + 2].e = "generate"
              /\ events'[Len(events) + 2].contents = turns]_vars

C3_Witness ==
    /\ pc = "generate"
    /\ Len(messages) = 3
    /\ messages[3] = ToolTurn("other_tool", [error |-> "Unknown function: other_tool"])
    /\ Resolutions = 0 /\ Fetches = 0 /\ ModelCalls = 2

\* C9: an empty submission never invokes the agent; a non-empty one invokes
\* it exactly once; while the agent runs nothing is shown; when it returned,
\* the success indicator and the returned text are shown and no error
\* banner; when it raised, the error banner with the error's description and
\* the configuration hint are shown and no success indicator.
C9_SubmitHandler ==
    /\ Count("run_agent_query") = IF user_prompt = "" THEN 0 ELSE 1
    /\ user_prompt = "" => events = << >> /\ shown = << >> /\ pc = "idle"
    /\ pc # "idle" => shown = << >>
    /\ (pc = "idle" /\ user_prompt # "") =>
          \/ /\ Last(events).e = "return"
             /\ Len(shown) = 4
             /\ shown[1].w = "success"
             /\ shown[4] = [w |-> "markdown", body |-> Last(events).text]
             /\ \A i \in 1..Len(shown) : shown[i].w \notin {"error", "warning"}
          \/ /\ Last(events).e = "raise"
             /\ Len(shown) = 2
             /\ shown[1] = [w |-> "error", body |-> Last(events).exc]
             /\ shown[2].w = "warning"

C9_Witness ==
    /\ pc = "idle" /\ user_prompt # ""
    /\ Last(events).e = "raise"
    /\ shown[1].w = "error"

\* C10 as stated: every generate_content request carries the conversation
\* accumulated so far, the fetch_student_flights declaration and the same
\* model identifier.
C10_EveryGenerateDeclaresTool ==
    \A i \in 1..Len(events) :
        events[i].e = "generate" =>
            /\ events[i].model = MODEL
            /\ events[i].tools = {"fetch_student_flights"}
            /\ (i = Len(events) => events[i].contents = messages)

DecimalDigits == {"0", "1", "2", "3", "4", "5", "6", "7", "8", "9"}
AllDecimal(s) == s # << >> /\ \A i \in 1..Len(s) : s[i] \in DecimalDigits

Resolved == call.fn = "resolve_user_name_to_id" /\ ret # Pending

\* C4: a string of one or more decimal digits is returned unchanged, with
\* no request sent, whether or not FLIGHT_CIRCLE_API_KEY is set and whatever
\* the user directory would have answered.
C4_DigitsPassThrough ==
    (Resolved /\ call.name_or_id.t = "str" /\ AllDecimal(call.name_or_id.s)) =>
        /\ ret.r = "id"
        /\ ret.id = call.name_or_id.s
        /\ ret.net = 0

C4_Witness ==
    /\ Resolved /\ ~api_key
    /\ call.name_or_id = StrV(<<"1", "1">>)
    /\ call.dir.kind = "transport_fail"
    /\ ret = ResId(<<"1", "1">>, 0)

\* the text of a name field, empty when the field is absent
FieldText(u, k) == IF k \in DOMAIN u /\ u[k].t = "str" THEN u[k].s ELSE << >>
\* the lower-cased, trimmed "first last" name
FirstLast(u) == Strip(Lower(FieldText(u, "first_name") \o <<" ">> \o FieldText(u, "last_name")))

\* the indexes of the users whose name contains the query
NameMatches(users, query) ==
    {i \in 1..Len(users) : Contains(Strip(Lower(query)), FirstLast(users[i]))}

FirstOf(S) == CHOOSE i \in S : \A j \in S : i <= j

\* the string form of the id values used here
StringForm(v) ==
    CASE v = IntV(12) -> <<"1", "2">>
      [] v = IntV(5)  -> <<"5">>
      [] v = IntV(0)  -> <<"0">>
      [] v.t = "str"  -> v.s

IdPresent(u, k) == k \in DOMAIN u /\ u[k] \notin {None, StrV(<< >>), IntV(0)}
IdKeys == <<"CustomerID", "customer_id", "customerId", "id">>
PresentKeys(u) == {i \in 1..4 : IdPresent(u, IdKeys[i])}

\* the canonical id by the fallback order, None when there is none
CanonicalId(u) ==
    IF PresentKeys(u) = {} THEN None
    ELSE StrV(StringForm(u[IdKeys[FirstOf(PresentKeys(u))]]))

\* C5 as stated: for a non-numeric identifier and a fetched user list, the
\* resolver returns the canonical id (CustomerID, customer_id, customerId,
\* id, in that order) of the first user whose name contains the query, and
\* an error naming the identifier exactly when no user matches.
C5_FirstMatchCanonicalId ==
    (/\ Resolved /\ api_key
     /\ call.name_or_id.t = "str" /\ ~AllDecimal(call.name_or_id.s)
     /\ call.dir.kind = "json" /\ call.dir.b = "data") =>
        LET users == call.dir.items
            hits == NameMatches(users, call.name_or_id.s)
        IN  /\ (hits = {}) <=> (ret.r = "error")
            /\ hits = {} => ret.arg = call.name_or_id.s
            /\ (hits # {} /\ CanonicalId(users[FirstOf(hits)]) # None) =>
                   ret = ResId(CanonicalId(users[FirstOf(hits)]).s, 1)

Served(fn) == call.fn = fn /\ ret # Pending

\* the users list of a 200 answer with a list-shaped body
ListAnswer ==
    /\ call.upstream.kind = "response"
    /\ call.upstream.status = 200
    /\ call.upstream.body.b \in {"list", "data"}

\* the trimmed, lower-cased e-mail; a user without one has the empty e-mail
EmailOf(u) == Strip(Lower(FieldText(u, "email")))

EmailMatches(users, username) ==
    {i \in 1..Len(users) : EmailOf(users[i]) = Strip(Lower(username))}

\* C6: /users/by-username answers 404 user_not_found with no user of that
\* e-mail, 409 multiple_users with two or more, and with exactly one the
\* user's id, or 500 missing_user_id when that user has no id; the number
\* of matches is decided before the id is looked at.
C6_UsernameOutcomes ==
    (Served("/users/by-username") /\ ListAnswer) =>
        LET users == call.upstream.body.items
            hits == EmailMatches(users, call.username)
            n == Cardinality(hits)
        IN  /\ n = 0 => ret = HttpError(404, [error |-> "user_not_found"])
            /\ n >= 2 => ret = HttpError(409, [error |-> "multiple_users"])
            /\ n = 1 =>
                 LET u == users[FirstOf(hits)]
                 IN  IF CanonicalId(u) = None
                     THEN ret = HttpError(500, [error |-> "missing_user_id",
                                                raw_user_keys |-> DOMAIN u])
                     ELSE /\ ret.status = 200
                          /\ "payload" \in DOMAIN ret
                          /\ ret.payload.user_id = CanonicalId(u).s

\* two users share the e-mail and the first has no id: 409, not 500
C6_Witness ==
    /\ Served("/users/by-username") /\ ListAnswer
    /\ Len(call.upstream.body.items) = 2
    /\ Cardinality(EmailMatches(call.upstream.body.items, call.username)) = 2
    /\ CanonicalId(call.upstream.body.items[1]) = None
    /\ ret.status = 409

\* C7: extract_user_id returns the string form of the first of CustomerID,
\* customer_id, customerId, id whose value is present and neither empty nor
\* zero, and no id when there is no such field.
C7_ExtractPriority ==
    Served("extract_user_id") => ret = CanonicalId(call.user)

C7_Witness ==
    /\ Served("extract_user_id")
    /\ call.user = [CustomerID |-> IntV(0), id |-> StrV(<<"7">>)]
    /\ ret = StrV(<<"7">>)

Is2xx(status) == status >= 200 /\ status < 300

InvalidFormat(answer) ==
    /\ answer.status = 500
    /\ "exc" \notin DOMAIN answer
    /\ "error" \in DOMAIN answer.detail
    /\ answer.detail.error = "invalid_response_format"

ProxyEndpoints ==
    {"/users/by-name", "/users/by-username", "/reservations/by-user", "/flights/by-date"}

\* C8 as stated: an upstream answer is forwarded as an error (its status,
\* its body) exactly when its status is not 2xx; a 2xx answer goes on to
\* the body parsing, where a parsed body that is neither a list nor an
\* object with a data list is answered 500 invalid_response_format; a
\* transport failure is answered 502 upstream_request_failed.
C8_ForwardExactlyNon2xx ==
    (call.fn \in ProxyEndpoints /\ ret # Pending) =>
        IF call.upstream.kind = "transport_fail"
        THEN ret = HttpError(502, [error |-> "upstream_request_failed"])
        ELSE LET up == call.upstream
             IN  /\ (ret = HttpError(up.status, up.body)) <=> ~Is2xx(up.status)
                 /\ (Is2xx(up.status) /\ up.body.b \in {"data_other", "obj_nodata", "scalar"})
                        => InvalidFormat(ret)

\* the turns are a user turn followed by (model turn, tool turn) pairs
UserThenPairs(turns) ==
    /\ Len(turns) % 2 = 1
    /\ turns[1].role = "user"
    /\ \A i \in 2..Len(turns) : turns[i].role = IF i % 2 = 0 THEN "model" ELSE "tool"

\* the tool turn carries what the first invocation of the response gives
FirstInvocationTurn(turn, r) ==
    /\ turn.role = "tool"
    /\ turn.name = r.function_calls[1].name
    /\ \E dir \in AgentDirs, flight \in FlightOutcomes :
          LET out == Dispatch(r.function_calls[1].name, r.function_calls[1].args,
                              api_key, dir, flight)
          IN  out.kind = "value" /\ turn.response = out.value

InRun == pc # "idle"

\* C11 as stated: within a run the conversation is the user turn followed
\* by (model turn, tool turn) pairs; each Execute step appends exactly the
\* model's turn and one tool turn with the result of the first invocation;
\* turns already appended are never changed, removed or reordered; a new
\* query starts from a fresh one-element conversation.
C11_ExecuteAppendsPair ==
    [][/\ InRun => UserThenPairs(messages)
       /\ (pc = "decide" /\ response.function_calls # << >>) =>
             /\ Len(messages') = Len(messages) + 2
             /\ SubSeq(messages', 1, Len(messages)) = messages
             /\ messages'[Len(messages) + 1] = ModelTurn(response)
             /\ FirstInvocationTurn(messages'[Len(messages) + 2], response)
       /\ (InRun /\ ~(pc = "decide" /\ response.function_calls # << >>)) =>
             messages' = messages
       /\ (pc = "idle" /\ pc' = "generate") => messages' = <<UserTurn(user_prompt')>>]_vars

\* C11, the part that does not depend on the tool returning: whenever the
\* conversation changes within a run, it is extended by exactly the model's
\* turn and the tool turn of the first invocation, and nothing else of it
\* changes; it is a user turn followed by pairs throughout; a new query
\* starts from the one-element conversation.
C11_AppendOnlyWhenAppended ==
    [][/\ InRun => UserThenPairs(messages)
       /\ (InRun /\ messages' # messages) =>
             /\ pc = "decide" /\ response.function_calls # << >>
             /\ Len(messages') = Len(messages) + 2
             /\ SubSeq(messages', 1, Len(messages)) = messages
             /\ messages'[Len(messages) + 1] = ModelTurn(response)
             /\ FirstInvocationTurn(messages'[Len(messages) + 2], response)
       /\ (pc = "idle" /\ pc' = "generate") => messages' = <<UserTurn(user_prompt')>>]_vars

\* run_agent_query has returned, with or without a client
AnyReturn == events # << >> /\ Last(events).e = "return"

PromptLogged == \E i \in 1..Len(events) : events[i] = EvPrintQuery(user_prompt)

\* each execution of the tool comes right after the line that logs the
\* invocation's name and arguments
ToolLoggedBeforeRun ==
    \A i \in 1..Len(events) :
        events[i].e = "resolve" =>
            /\ i > 1
            /\ events[i - 1].e = "print tool call"
            /\ events[i - 1].name = "fetch_student_flights"
            /\ events[i - 1].args["user_identifier"] = events[i].arg

\* the model's final answer is printed right before it is returned
AnswerLoggedBeforeReturn ==
    /\ Len(events) >= 2
    /\ events[Len(events) - 1] = EvPrintFinal(Last(events).text)

\* C12 as stated: for every call that returns, the one that returns at once
\* for want of a client included, the prompt has been logged; every tool
\* invocation is logged with name and arguments before the tool runs; the
\* model's final answer is logged before it is returned.
C12_EveryReturnLogged ==
    AnyReturn =>
        /\ PromptLogged
        /\ ToolLoggedBeforeRun
        /\ ModelCalls > 0 => AnswerLoggedBeforeReturn

\* C12, for the calls that have a client: the same three, which hold.
C12_LoggedWithClient ==
    Returned => PromptLogged /\ ToolLoggedBeforeRun /\ AnswerLoggedBeforeReturn

====
